---- MODULE Spec2Model ----
(***************************************************************************)
(* TransferLayoutPass (paddle/fluid/framework/ir/transfer_layout_pass.cc). *)
(* The pass walks the topologically sorted operators three times:          *)
(*   1. classification  (lines 169-190) builds weights_shared, valid_ops   *)
(*   2. consistency     (lines 192-209) erases groups sharing a Filter     *)
(*   3. commit          (lines 211-304) rewrites attributes, shapes,       *)
(*                      tensors and inserts transfer_layout operators      *)
(* One action visits one operator of one loop.                             *)
(***************************************************************************)
EXTENDS Integers, Sequences, FiniteSets, TLC

\* ------------------------------------------------------------------ bounds
\* operators of a graph of the wiring family
MaxOps == 4
\* operators of a graph of the weight-sharing family
MaxSharers == 3
\* largest dimension size of the shapes of the permutation round trip
MaxDim == 3

\* --------------------------------------------------------- program constants
CUDNN_ALIGNMENT == 8
target_op_type == "fused_conv2d_add_act"

VARIABLES
  pc,               \* "start" | "classify" | "filter" | "commit" | "done" | "error",
                    \* "nchw" | "nhwc" | "back" in the round-trip specification
  error,            \* which PADDLE_ENFORCE failed, "" when none
  iter,             \* position of the running loop in op_nodes
  op_nodes,         \* TopologySortOperations(*graph)
  use_cutlass,      \* Get<bool>("use_cutlass")
  nodes,            \* the ir::Graph: node id -> ir::Node (with its OpDesc / VarDesc)
  scope,            \* param_scope(): tensor name -> phi::DenseTensor (dims, layout)
  weights_shared,   \* Filter name -> vector of operators
  valid_ops,        \* unordered_set<ir::Node *>
  vars_shape_nhwc,  \* unordered_set<ir::Node *>
  cache,            \* producer Value node -> conversion output Value node
  entry,            \* the graph and the storage as they were when ApplyImpl was entered
  calls,            \* history: the <<prev_node, from_layout, to_layout>> of every
                    \* InsertLayoutTransOp call made so far
  args              \* what ApplyImpl was called with: graph_null, is_main, scope_null

vars == <<pc, error, iter, op_nodes, use_cutlass, nodes, scope, weights_shared,
          valid_ops, vars_shape_nhwc, cache, entry, calls, args>>

\* ------------------------------------------------------------ small helpers
Range(s) == {s[i] : i \in 1..Len(s)}

RECURSIVE RemoveAll(_, _)
\* std::remove + erase: drops every occurrence of x from the vector s
RemoveAll(s, x) ==
  IF s = <<>> THEN <<>>
  ELSE IF Head(s) = x THEN RemoveAll(Tail(s), x)
       ELSE <<Head(s)>> \o RemoveAll(Tail(s), x)

\* ------------------------------------------------------------ nodes
NoAttrs == [data_format |-> "", use_cudnn |-> "absent", fuse_alpha |-> "absent",
            src_layout |-> "", dst_layout |-> ""]

NoInputs == [Input |-> <<>>, Filter |-> <<>>, X |-> <<>>]

VarNode(name, persistable, shape) ==
  [kind |-> "var", type |-> "", name |-> name, attrs |-> NoAttrs,
   in_names |-> NoInputs, out_names |-> <<>>,
   persistable |-> persistable, shape |-> shape,
   inputs |-> <<>>, outputs |-> <<>>]

OpNode(type, attrs, in_names, out_names) ==
  [kind |-> "op", type |-> type, name |-> type, attrs |-> attrs,
   in_names |-> in_names, out_names |-> out_names,
   persistable |-> FALSE, shape |-> <<>>,
   inputs |-> <<>>, outputs |-> <<>>]

IsOp(g, n) == g[n].kind = "op"
IsVar(g, n) == g[n].kind = "var"

\* graph->CreateOpNode / graph->CreateVarNode: the new node gets a fresh id
CreateNode(g, node) == Append(g, node)

\* IR_NODE_LINK_TO(a, b): a->outputs.push_back(b); b->inputs.push_back(a)
IR_NODE_LINK_TO(g, a, b) ==
  [g EXCEPT ![a].outputs = Append(@, b), ![b].inputs = Append(@, a)]

\* IR_NODE_UNLINK(a, b): erase b from a->outputs and a from b->inputs
IR_NODE_UNLINK(g, a, b) ==
  [g EXCEPT ![a].outputs = RemoveAll(@, b), ![b].inputs = RemoveAll(@, a)]

RenameSeq(s, old, new) == [i \in 1..Len(s) |-> IF s[i] = old THEN new ELSE s[i]]

\* OpDesc::RenameInput(old_name, new_name): every input slot, every occurrence
RenameInput(node, old, new) ==
  [node EXCEPT !.in_names = [slot \in DOMAIN @ |-> RenameSeq(@[slot], old, new)]]

\* ------------------------------------------------------------ shapes
\* [n,c,h,w] -> [n,h,w,c]
PermNCHWToNHWC(shape) == <<shape[1], shape[3], shape[4], shape[2]>>
\* the NCHW branch pasted into the NHWC branch
PermNHWCToNCHW_Copied(shape) == <<shape[1], shape[3], shape[4], shape[2]>>

\* [n,h,w,c] -> [n,c,h,w]
PermNHWCToNCHW(shape) == <<shape[1], shape[4], shape[2], shape[3]>>

\* framework::TransDataLayout(kNCHW, kNHWC, ...): dims permuted, layout set
TransDataLayout(tensor) ==
  [dims |-> PermNCHWToNHWC(tensor.dims), layout |-> "NHWC",
   converted |-> tensor.converted + 1]

\* ------------------------------------------------------------ input graphs
\* A graph of n operators.  Operator i is node i, reads one activation (the
\* graph input x0, or the output of an operator placed before it) through slot
\* Input and the tensors of `filter' through slot Filter, and writes one
\* activation.  Node n+1 is x0, node n+1+i the output of operator i, node
\* 2n+1+k the k-th parameter.
FilterSeq == <<"f1", "f2", "f3">>
FilterNames == Range(FilterSeq)

\* param_scope() at entry: f1 aligned, f2 with 15 output channels, f3 already NHWC
Scope0 ==
  [f \in FilterNames |->
     IF f = "f1" THEN [dims |-> <<16, 16, 3, 3>>, layout |-> "NCHW", converted |-> 0]
     ELSE IF f = "f2" THEN [dims |-> <<15, 16, 3, 3>>, layout |-> "NCHW", converted |-> 0]
     ELSE [dims |-> <<16, 3, 3, 16>>, layout |-> "NHWC", converted |-> 0]]

\* the same storage with a 5-dimensional f1 tensor
Scope5 == [Scope0 EXCEPT !["f1"].dims = <<16, 16, 3, 3, 1>>]

InputShape == <<1, 16, 32, 30>>
InputShape5 == <<1, 16, 32, 30, 2>>
OutputShape5 == <<1, 8, 14, 12, 2>>
OutputShape == <<1, 8, 14, 12>>

Kind(type, fmt, cudnn, filter) ==
  [type |-> type, fmt |-> fmt, cudnn |-> cudnn, filter |-> filter]

OtherPlain  == Kind("conv2d", "NCHW", "absent", <<>>)
OtherF1     == Kind("conv2d", "NCHW", "absent", <<"f1">>)
TargetF1    == Kind(target_op_type, "NCHW", "absent", <<"f1">>)
TargetF2    == Kind(target_op_type, "NCHW", "absent", <<"f2">>)
NoCudnnF1   == Kind(target_op_type, "NCHW", "false", <<"f1">>)
NoCudnnF1F2 == Kind(target_op_type, "NCHW", "false", <<"f1", "f2">>)
NoCudnnF3   == Kind(target_op_type, "NCHW", "false", <<"f3">>)
TargetNHWC  == Kind(target_op_type, "NHWC", "absent", <<"f1">>)

WireKinds == {OtherPlain, TargetF1}
ShareKinds == {OtherF1, TargetF1, TargetF2, NoCudnnF1, NoCudnnF1F2, NoCudnnF3,
               TargetNHWC}

\* wiring family: any fan-out, operators eligible by alignment only
WireGraphs ==
  {[n |-> MaxOps, kind |-> k, src |-> s, cutlass |-> FALSE,
    xshape |-> InputShape, oshape |-> OutputShape, scope |-> Scope0] :
     k \in [1..MaxOps -> WireKinds],
     s \in {f \in [1..MaxOps -> 0..(MaxOps - 1)] : \A i \in 1..MaxOps : f[i] < i}}

\* weight-sharing family: every operator reads x0, rich Filter lists and attributes
ShareGraphs ==
  {[n |-> MaxSharers, kind |-> k, src |-> [i \in 1..MaxSharers |-> 0], cutlass |-> c,
    xshape |-> InputShape, oshape |-> OutputShape, scope |-> Scope0] :
     k \in [1..MaxSharers -> ShareKinds], c \in BOOLEAN}

\* rank family: two operators in a chain or side by side, with the graph
\* input, the operator outputs or the f1 tensor declared 5-dimensional
RankGraphs ==
  {[n |-> 2, kind |-> k, src |-> <<0, s>>, cutlass |-> FALSE,
    xshape |-> xs, oshape |-> os, scope |-> sc] :
     k \in [1..2 -> WireKinds], s \in 0..1,
     xs \in {InputShape, InputShape5}, os \in {OutputShape, OutputShape5},
     sc \in {Scope0, Scope5}}

XNode(d) == d.n + 1
OutNode(d, i) == d.n + 1 + i
FilterNode(d, k) == 2 * d.n + 1 + k
FilterIndex(f) == CHOOSE k \in 1..Len(FilterSeq) : FilterSeq[k] = f
OutName(i) == "o" \o ToString(i)
SrcNode(d, i) == IF d.src[i] = 0 THEN XNode(d) ELSE OutNode(d, d.src[i])
SrcName(d, i) == IF d.src[i] = 0 THEN "x0" ELSE OutName(d.src[i])

RECURSIVE Readers(_, _, _)
\* the operators i..n that have node v among their inputs, in graph order
Readers(d, v, i) ==
  IF i > d.n THEN <<>>
  ELSE LET reads == v = SrcNode(d, i)
                    \/ \E j \in 1..Len(d.kind[i].filter) :
                         v = FilterNode(d, FilterIndex(d.kind[i].filter[j]))
       IN (IF reads THEN <<i>> ELSE <<>>) \o Readers(d, v, i + 1)

BuildGraph(d) ==
  [v \in 1..(2 * d.n + 1 + Len(FilterSeq)) |->
     IF v <= d.n THEN
       LET k == d.kind[v] IN
       [OpNode(k.type,
               [NoAttrs EXCEPT !.data_format = k.fmt, !.use_cudnn = k.cudnn],
               [NoInputs EXCEPT !.Input = <<SrcName(d, v)>>, !.Filter = k.filter],
               <<OutName(v)>>)
          EXCEPT !.inputs = <<SrcNode(d, v)>> \o
                            [j \in 1..Len(k.filter) |-> FilterNode(d, FilterIndex(k.filter[j]))],
                 !.outputs = <<OutNode(d, v)>>]
     ELSE IF v = XNode(d) THEN
       [VarNode("x0", FALSE, d.xshape) EXCEPT !.outputs = Readers(d, v, 1)]
     ELSE IF v <= 2 * d.n + 1 THEN
       [VarNode(OutName(v - d.n - 1), FALSE, d.oshape)
          EXCEPT !.inputs = <<v - d.n - 1>>, !.outputs = Readers(d, v, 1)]
     ELSE
       LET f == FilterSeq[v - 2 * d.n - 1] IN
       [VarNode(f, TRUE, d.scope[f].dims) EXCEPT !.outputs = Readers(d, v, 1)]]

\* TopologySortOperations: the operators, each after the producers of its inputs
TopologySortOperations(d) == [i \in 1..d.n |-> i]

EmptyCache == [v \in {} |-> 0]

NoArgs == [graph_null |-> FALSE, is_main |-> TRUE, scope_null |-> FALSE]

Shapes == [1..4 -> 1..MaxDim]

InitGraph(d) ==
  /\ pc = "start"
  /\ error = ""
  /\ iter = 1
  /\ op_nodes = TopologySortOperations(d)
  /\ use_cutlass = d.cutlass
  /\ nodes = BuildGraph(d)
  /\ scope = d.scope
  /\ weights_shared = [f \in FilterNames |-> <<>>]
  /\ valid_ops = {}
  /\ vars_shape_nhwc = {}
  /\ cache = EmptyCache
  /\ entry = [nodes |-> BuildGraph(d), scope |-> d.scope]
  /\ calls = {}
  /\ args = NoArgs

Init == \E d \in WireGraphs \cup ShareGraphs \cup RankGraphs : InitGraph(d)

\* ------------------------------------------------------------ the pass
\* The mutable state of one ApplyImpl call, as a record.
State(g, sc, ws, vo, nhwc, ca) ==
  [nodes |-> g, scope |-> sc, weights_shared |-> ws, valid_ops |-> vo,
   vars_shape_nhwc |-> nhwc, cache |-> ca, calls |-> {}]

Current ==
  [State(nodes, scope, weights_shared, valid_ops, vars_shape_nhwc, cache)
     EXCEPT !.calls = calls]

\* lines 139-157: every Filter tensor has dims[0] and dims[1] multiples of 8
cuDNNIsValid(st, op_node) ==
  LET filter_names == st.nodes[op_node].in_names.Filter IN
  \A i \in 1..Len(filter_names) :
    LET filter_tensor == st.scope[filter_names[i]]
        oc == filter_tensor.dims[1]
        ic == filter_tensor.dims[2]
    IN oc % CUDNN_ALIGNMENT = 0 /\ ic % CUDNN_ALIGNMENT = 0

RECURSIVE FilterCheckFails(_, _)
\* line 147 inside the loop of lines 144-155: the CHECK_EQ fails at the first
\* tensor whose rank is not 4, unless an earlier tensor already returned false
FilterCheckFails(sc, filter_names) ==
  IF filter_names = <<>> THEN FALSE
  ELSE LET filter_tensor == sc[Head(filter_names)] IN
       IF Len(filter_tensor.dims) # 4 THEN TRUE
       ELSE IF ~(filter_tensor.dims[1] % CUDNN_ALIGNMENT = 0
                 /\ filter_tensor.dims[2] % CUDNN_ALIGNMENT = 0) THEN FALSE
       ELSE FilterCheckFails(sc, Tail(filter_names))

\* lines 159-167 with use_cudnn defaulting to false
CutlassIsValid_DefaultFalse(st, op_node, cutlass_enable) ==
  LET op_desc == st.nodes[op_node]
      use_cudnn == IF op_desc.attrs.use_cudnn # "absent"
                   THEN op_desc.attrs.use_cudnn = "true"
                   ELSE FALSE
  IN ~use_cudnn /\ cutlass_enable

\* lines 159-167: use_cudnn defaults to true when the attribute is absent
CutlassIsValid(st, op_node, cutlass_enable) ==
  LET op_desc == st.nodes[op_node]
      use_cudnn == IF op_desc.attrs.use_cudnn # "absent"
                   THEN op_desc.attrs.use_cudnn = "true"
                   ELSE TRUE
  IN ~use_cudnn /\ cutlass_enable

RECURSIVE PushBackAll(_, _, _)
\* lines 183-185: weights_shared[filter_name].push_back(op_node) for each name
PushBackAll(ws, filter_names, op_node) ==
  IF filter_names = <<>> THEN ws
  ELSE PushBackAll([ws EXCEPT ![Head(filter_names)] = Append(@, op_node)],
                   Tail(filter_names), op_node)

\* lines 169-190, one iteration of the classification loop
ClassifyOp(st, op_node, cutlass_enable) ==
  IF st.nodes[op_node].type # target_op_type THEN st
  ELSE IF st.nodes[op_node].attrs.data_format # "NCHW" THEN st
  ELSE [st EXCEPT
          !.weights_shared = PushBackAll(@, st.nodes[op_node].in_names.Filter, op_node),
          !.valid_ops = IF cuDNNIsValid(st, op_node)
                           \/ CutlassIsValid(st, op_node, cutlass_enable)
                        THEN @ \cup {op_node} ELSE @]

RECURSIVE EraseGroups(_, _, _)
\* lines 197-207: for each Filter name in turn, if some operator of its group
\* is not valid, erase the whole group
EraseGroups(vo, ws, filter_names) ==
  IF filter_names = <<>> THEN vo
  ELSE LET group == ws[Head(filter_names)]
           any_invalid == \E i \in 1..Len(group) : group[i] \notin vo
       IN EraseGroups(IF any_invalid THEN vo \ Range(group) ELSE vo,
                      ws, Tail(filter_names))

\* lines 193-209, one iteration of the consistency loop
FilterOp(st, op_node) ==
  IF op_node \in st.valid_ops
  THEN [st EXCEPT !.valid_ops =
          EraseGroups(@, st.weights_shared, st.nodes[op_node].in_names.Filter)]
  ELSE st

\* line 53: no conversion was created for this producer yet
CacheMiss_Always(st, prev_node) == TRUE

CacheMiss(st, prev_node) == prev_node \notin DOMAIN st.cache

\* lines 42-79: the transfer_layout operator, its output Value node, the edge
\* between them and the cache entry
CreateConversion(st, prev_node, from_layout, to_layout, out_var_name) ==
  LET g == st.nodes
      op_id == Len(g) + 1
      out_id == Len(g) + 2
      op_desc == OpNode("transfer_layout",
                        [NoAttrs EXCEPT !.src_layout = from_layout,
                                        !.dst_layout = to_layout],
                        [NoInputs EXCEPT !.X = <<g[prev_node].name>>],
                        <<out_var_name>>)
      to_shape == g[prev_node].shape
      op_out_var_desc == VarNode(out_var_name, FALSE,
                                 IF from_layout = "NCHW" THEN PermNCHWToNHWC(to_shape)
                                 ELSE PermNHWCToNCHW(to_shape))
  IN [st EXCEPT
        !.nodes = IR_NODE_LINK_TO(CreateNode(CreateNode(g, op_desc), op_out_var_desc),
                                  op_id, out_id),
        !.cache = (prev_node :> out_id) @@ @]

\* lines 80-85 without the unlink
Rewire_KeepEdge(st, prev_node, next_node) ==
  LET cached == st.cache[prev_node]
      g1 == [st.nodes EXCEPT ![next_node] =
               RenameInput(@, st.nodes[prev_node].name, st.nodes[cached].name)]
      g2 == IR_NODE_LINK_TO(g1, prev_node, Head(g1[cached].inputs))
      g3 == IR_NODE_LINK_TO(g2, cached, next_node)
  IN [st EXCEPT !.nodes = g3]

\* lines 80-85 without the edge from the conversion output to the consumer
Rewire_NoOutEdge(st, prev_node, next_node) ==
  LET cached == st.cache[prev_node]
      g1 == [st.nodes EXCEPT ![next_node] =
               RenameInput(@, st.nodes[prev_node].name, st.nodes[cached].name)]
      g2 == IR_NODE_LINK_TO(g1, prev_node, Head(g1[cached].inputs))
      g4 == IR_NODE_UNLINK(g2, prev_node, next_node)
  IN [st EXCEPT !.nodes = g4]

\* lines 80-85 without line 82: the producer is not linked to the conversion
Rewire_NoProducerEdge(st, prev_node, next_node) ==
  LET cached == st.cache[prev_node]
      g1 == [st.nodes EXCEPT ![next_node] =
               RenameInput(@, st.nodes[prev_node].name, st.nodes[cached].name)]
      g3 == IR_NODE_LINK_TO(g1, cached, next_node)
      g4 == IR_NODE_UNLINK(g3, prev_node, next_node)
  IN [st EXCEPT !.nodes = g4]

\* lines 80-85: rename the consumer's input, link producer -> conversion
\* operator and conversion output -> consumer, unlink producer -> consumer
Rewire(st, prev_node, next_node) ==
  LET cached == st.cache[prev_node]
      g1 == [st.nodes EXCEPT ![next_node] =
               RenameInput(@, st.nodes[prev_node].name, st.nodes[cached].name)]
      g2 == IR_NODE_LINK_TO(g1, prev_node, Head(g1[cached].inputs))
      g3 == IR_NODE_LINK_TO(g2, cached, next_node)
      g4 == IR_NODE_UNLINK(g3, prev_node, next_node)
  IN [st EXCEPT !.nodes = g4]

\* lines 40-86, the lambda do_insert
do_insert(st, prev_node, next_node, from_layout, to_layout, out_var_name) ==
  Rewire(IF CacheMiss(st, prev_node)
         THEN CreateConversion(st, prev_node, from_layout, to_layout, out_var_name)
         ELSE st,
         prev_node, next_node)

\* lines 33-99; the call is added to the history before anything else
InsertLayoutTransOp(st, prev_node, next_node, from_layout, to_layout) ==
  LET in_var_name == st.nodes[prev_node].name
      called == [st EXCEPT !.calls = @ \cup {<<prev_node, from_layout, to_layout>>}]
  IN
  IF from_layout = "NCHW" /\ to_layout = "NHWC"
  THEN do_insert(called, prev_node, next_node, from_layout, to_layout,
                 in_var_name \o "_nchw_to_nhwc")
  ELSE IF from_layout = "NHWC" /\ to_layout = "NCHW"
  THEN do_insert(called, prev_node, next_node, from_layout, to_layout,
                 in_var_name \o "_nhwc_to_nchw")
  ELSE called

RECURSIVE PermuteFilterVars(_, _, _)
\* lines 248-257: every persistable input named filter_name gets its shape permuted
PermuteFilterVars(g, op_inputs, filter_name) ==
  IF op_inputs = <<>> THEN g
  ELSE LET in_var_node == Head(op_inputs)
           g1 == IF g[in_var_node].persistable /\ g[in_var_node].name = filter_name
                 THEN [g EXCEPT ![in_var_node].shape = PermNCHWToNHWC(@)]
                 ELSE g
       IN PermuteFilterVars(g1, Tail(op_inputs), filter_name)

\* line 236 with the test dropped: every visit converts again
SkipConverted_Never(filter_tensor) == FALSE

\* lines 236-238: a tensor already in NHWC is skipped
SkipConverted(filter_tensor) == filter_tensor.layout = "NHWC"

RECURSIVE TransferWeights(_, _, _)
\* lines 231-258: convert each Filter tensor that is not NHWC yet
TransferWeights(st, op_node, filter_names) ==
  IF filter_names = <<>> THEN st
  ELSE LET filter_name == Head(filter_names)
           filter_tensor == st.scope[filter_name]
           st1 == IF SkipConverted(filter_tensor) THEN st
                  ELSE [st EXCEPT
                          !.scope[filter_name] = TransDataLayout(filter_tensor),
                          !.nodes = PermuteFilterVars(@, st.nodes[op_node].inputs,
                                                      filter_name)]
       IN TransferWeights(st1, op_node, Tail(filter_names))

RECURSIVE TransferOutputs(_, _)
\* lines 260-270: non-persistable outputs are permuted and tracked as NHWC
TransferOutputs(st, op_outputs) ==
  IF op_outputs = <<>> THEN st
  ELSE LET out_var_node == Head(op_outputs)
           st1 == IF st.nodes[out_var_node].persistable THEN st
                  ELSE [st EXCEPT
                          !.nodes[out_var_node].shape = PermNCHWToNHWC(@),
                          !.vars_shape_nhwc = @ \cup {out_var_node}]
       IN TransferOutputs(st1, Tail(op_outputs))

\* line 292 without the test: every input of the operator is converted back
NeedsToNCHW_Always(st, in_var_node) == TRUE

\* line 292: an input tracked as NHWC is converted back
NeedsToNCHW(st, in_var_node) == in_var_node \in st.vars_shape_nhwc

\* lines 277-278 without the test of vars_shape_nhwc
NeedsToNHWC_IgnoreTracked(st, in_var_node) == ~st.nodes[in_var_node].persistable

\* lines 277-278: persistable and already-NHWC inputs are skipped
NeedsToNHWC(st, in_var_node) ==
  /\ ~st.nodes[in_var_node].persistable
  /\ in_var_node \notin st.vars_shape_nhwc

RECURSIVE InsertForValid(_, _, _)
\* lines 272-287: NCHW -> NHWC in front of a valid operator
InsertForValid(st, op_node, op_inputs) ==
  IF op_inputs = <<>> THEN st
  ELSE LET in_var_node == Head(op_inputs)
           st1 == IF NeedsToNHWC(st, in_var_node)
                  THEN InsertLayoutTransOp(st, in_var_node, op_node, "NCHW", "NHWC")
                  ELSE st
       IN InsertForValid(st1, op_node, Tail(op_inputs))

RECURSIVE InsertForOther(_, _, _)
\* lines 288-303: NHWC -> NCHW in front of an operator that is not valid
InsertForOther(st, op_node, op_inputs) ==
  IF op_inputs = <<>> THEN st
  ELSE LET in_var_node == Head(op_inputs)
           st1 == IF NeedsToNCHW(st, in_var_node)
                  THEN InsertLayoutTransOp(st, in_var_node, op_node, "NHWC", "NCHW")
                  ELSE st
       IN InsertForOther(st1, op_node, Tail(op_inputs))

\* lines 215-229: attributes of a valid operator
SetValidAttrs(st, op_node, cutlass_enable) ==
  LET attrs == st.nodes[op_node].attrs
      a1 == IF CutlassIsValid(st, op_node, cutlass_enable)
            THEN (IF attrs.fuse_alpha = "absent"
                  THEN [attrs EXCEPT !.fuse_alpha = "0.0"] ELSE attrs)
            ELSE IF cuDNNIsValid(st, op_node)
            THEN (IF attrs.use_cudnn # "absent"
                  THEN [attrs EXCEPT !.use_cudnn = "true"] ELSE attrs)
            ELSE attrs
  IN [st EXCEPT !.nodes[op_node].attrs = [a1 EXCEPT !.data_format = "NHWC"]]

\* line 215 testing the operator's kind instead of valid_ops
IsValidOp_ByKind(st, op_node) ==
  /\ st.nodes[op_node].type = target_op_type
  /\ st.nodes[op_node].attrs.data_format = "NCHW"

\* line 215: valid_ops.count(op_node)
IsValidOp(st, op_node) == op_node \in st.valid_ops

\* lines 212-304 with line 261 walking op_node->inputs instead of the outputs
CommitOp_TrackInputs(st, op_node, cutlass_enable) ==
  IF IsValidOp(st, op_node)
  THEN LET st1 == SetValidAttrs(st, op_node, cutlass_enable)
           st2 == TransferWeights(st1, op_node, st1.nodes[op_node].in_names.Filter)
           st3 == TransferOutputs(st2, st2.nodes[op_node].inputs)
       IN InsertForValid(st3, op_node, st3.nodes[op_node].inputs)
  ELSE InsertForOther(st, op_node, st.nodes[op_node].inputs)

\* lines 212-304, one iteration of the commit loop
CommitOp(st, op_node, cutlass_enable) ==
  IF IsValidOp(st, op_node)
  THEN LET st1 == SetValidAttrs(st, op_node, cutlass_enable)
           st2 == TransferWeights(st1, op_node, st1.nodes[op_node].in_names.Filter)
           st3 == TransferOutputs(st2, st2.nodes[op_node].outputs)
       IN InsertForValid(st3, op_node, st3.nodes[op_node].inputs)
  ELSE InsertForOther(st, op_node, st.nodes[op_node].inputs)

\* ------------------------------------------------------------ actions
Frame == UNCHANGED <<op_nodes, use_cutlass, entry>>

Store(st) ==
  /\ nodes' = st.nodes
  /\ scope' = st.scope
  /\ weights_shared' = st.weights_shared
  /\ valid_ops' = st.valid_ops
  /\ vars_shape_nhwc' = st.vars_shape_nhwc
  /\ cache' = st.cache
  /\ calls' = st.calls

\* lines 104-119 without the check of the scope
Precondition_NoScopeCheck(graph_null, is_main, scope_null) ==
  IF graph_null THEN "graph should not be nullptr"
  ELSE IF ~is_main THEN "the graph should be main graph"
  ELSE ""

\* lines 104-119: the three PADDLE_ENFORCE checks, in program order
Precondition(graph_null, is_main, scope_null) ==
  IF graph_null THEN "graph should not be nullptr"
  ELSE IF ~is_main THEN "the graph should be main graph"
  ELSE IF scope_null THEN "scope must not be nullptr"
  ELSE ""

\* lines 103-135: entry of ApplyImpl
Enter ==
  /\ pc = "start"
  /\ \E graph_null \in BOOLEAN, is_main \in BOOLEAN, scope_null \in BOOLEAN :
       LET e == Precondition(graph_null, is_main, scope_null) IN
       /\ args' = [graph_null |-> graph_null, is_main |-> is_main,
                   scope_null |-> scope_null]
       /\ error' = e
       /\ pc' = IF e = "" THEN "classify" ELSE "error"
  /\ iter' = 1
  /\ Store(Current)
  /\ Frame

NextLoop(following) ==
  IF iter < Len(op_nodes)
  THEN iter' = iter + 1 /\ pc' = pc
  ELSE iter' = 1 /\ pc' = following

\* the text glog prints when the CHECK_EQ of line 147 fails
CheckFailed == "Check failed: filter_tensor.dims().size() == 4UL"

\* lines 183-188: the CHECK_EQ of line 147 fails while the operator is classified
ClassifyAborts(st, op_node) ==
  /\ st.nodes[op_node].type = target_op_type
  /\ st.nodes[op_node].attrs.data_format = "NCHW"
  /\ FilterCheckFails(st.scope, st.nodes[op_node].in_names.Filter)

\* lines 215-223: the CHECK_EQ of line 147 fails when line 223 is reached
CommitAborts(st, op_node, cutlass_enable) ==
  /\ IsValidOp(st, op_node)
  /\ ~CutlassIsValid(st, op_node, cutlass_enable)
  /\ FilterCheckFails(st.scope, st.nodes[op_node].in_names.Filter)

Classify ==
  /\ pc = "classify"
  /\ IF ClassifyAborts(Current, op_nodes[iter])
     THEN /\ Store([Current EXCEPT !.weights_shared =
                      PushBackAll(@, nodes[op_nodes[iter]].in_names.Filter,
                                  op_nodes[iter])])
          /\ pc' = "error"
          /\ error' = CheckFailed
          /\ UNCHANGED iter
     ELSE /\ Store(ClassifyOp(Current, op_nodes[iter], use_cutlass))
          /\ NextLoop("filter")
          /\ UNCHANGED error
  /\ UNCHANGED args
  /\ Frame

Filter ==
  /\ pc = "filter"
  /\ Store(FilterOp(Current, op_nodes[iter]))
  /\ NextLoop("commit")
  /\ UNCHANGED <<error, args>>
  /\ Frame

Commit ==
  /\ pc = "commit"
  /\ IF CommitAborts(Current, op_nodes[iter], use_cutlass)
     THEN /\ Store(Current)
          /\ pc' = "error"
          /\ error' = CheckFailed
          /\ UNCHANGED iter
     ELSE /\ Store(CommitOp(Current, op_nodes[iter], use_cutlass))
          /\ NextLoop("done")
          /\ UNCHANGED error
  /\ UNCHANGED args
  /\ Frame

Next == Enter \/ Classify \/ Filter \/ Commit

Spec == Init /\ [][Next]_vars

\* ------------------------------------------------------------ round trip
\* One producer (node 2) feeding one consumer (node 1); InsertLayoutTransOp is
\* applied NCHW -> NHWC to the producer and then NHWC -> NCHW to the
\* conversion output it created.
RoundTripGraph(shape) ==
  IR_NODE_LINK_TO(
    <<OpNode("conv2d", [NoAttrs EXCEPT !.data_format = "NCHW"],
             [NoInputs EXCEPT !.Input = <<"x0">>], <<"o1">>),
      VarNode("x0", FALSE, shape)>>,
    2, 1)

PermInit ==
  \E shape \in Shapes :
    /\ pc = "nchw"
    /\ error = ""
    /\ iter = 1
    /\ op_nodes = <<1>>
    /\ use_cutlass = FALSE
    /\ nodes = RoundTripGraph(shape)
    /\ scope = Scope0
    /\ weights_shared = [f \in FilterNames |-> <<>>]
    /\ valid_ops = {}
    /\ vars_shape_nhwc = {}
    /\ cache = EmptyCache
    /\ entry = [nodes |-> RoundTripGraph(shape), scope |-> Scope0]
    /\ calls = {}
    /\ args = NoArgs

ToNHWC ==
  /\ pc = "nchw"
  /\ Store(InsertLayoutTransOp(Current, 2, 1, "NCHW", "NHWC"))
  /\ pc' = "nhwc"
  /\ UNCHANGED <<error, iter, args>>
  /\ Frame

ToNCHW ==
  /\ pc = "nhwc"
  /\ Store(InsertLayoutTransOp(Current, cache[2], 1, "NHWC", "NCHW"))
  /\ pc' = "back"
  /\ UNCHANGED <<error, iter, args>>
  /\ Frame

PermNext == ToNHWC \/ ToNCHW

PermSpec == PermInit /\ [][PermNext]_vars

\* ------------------------------------------------------------ vocabulary of the claims
OrigOps == Range(op_nodes)
OrigNodes == 1..Len(entry.nodes)
OrigVars == {v \in OrigNodes : entry.nodes[v].kind = "var"}
\* the operators that read Value node v when the pass was entered
Consumers0(v) == {o \in OrigOps : v \in Range(entry.nodes[o].inputs)}
TransferOps == {t \in DOMAIN nodes : nodes[t].type = "transfer_layout"}
\* the transfer_layout operators inserted for producer v
ConversionsOf(v) ==
  {t \in TransferOps : nodes[t].in_names.X = <<nodes[v].name>> \/ v \in Range(nodes[t].inputs)}
ConversionOutputsOf(v) ==
  {u \in DOMAIN nodes : IsVar(nodes, u) /\ \E t \in ConversionsOf(v) : t \in Range(nodes[u].inputs)}
\* the consumers of v whose edge from v crosses a layout boundary
Crossing(v) ==
  {o \in Consumers0(v) :
     \/ o \in valid_ops /\ ~entry.nodes[v].persistable /\ v \notin vars_shape_nhwc
     \/ o \notin valid_ops /\ v \in vars_shape_nhwc}
DeclaredInputs(o) ==
  UNION {Range(nodes[o].in_names[slot]) : slot \in DOMAIN nodes[o].in_names}
\* the operators that list Filter name f and passed the kind and data_format tests
Group(f) ==
  {o \in OrigOps : /\ entry.nodes[o].type = "fused_conv2d_add_act"
                   /\ entry.nodes[o].attrs.data_format = "NCHW"
                   /\ f \in Range(entry.nodes[o].in_names.Filter)}
FilterDone == pc \in {"commit", "done"}

\* C1: once the consistency loop has run, for every Filter name the target NCHW
\* operators listing it are all in valid_ops or all outside it, also when an
\* operator lists two Filter names.
C1_GroupsAllOrNone ==
  FilterDone =>
    \A f \in FilterNames : Group(f) \subseteq valid_ops \/ Group(f) \cap valid_ops = {}

\* C2: a producer whose consumers need a conversion gets exactly one
\* transfer_layout operator and one conversion output, held by the cache, and
\* every such consumer is renamed to that output and has an edge from it.
C2_OneConversionPerProducer ==
  pc = "done" =>
    \A v \in OrigVars :
      Crossing(v) # {} =>
        /\ Cardinality(ConversionsOf(v)) = 1
        /\ Cardinality(ConversionOutputsOf(v)) = 1
        /\ v \in DOMAIN cache
        /\ ConversionOutputsOf(v) = {cache[v]}
        /\ \A o \in Crossing(v) :
             /\ nodes[cache[v]].name \in DeclaredInputs(o)
             /\ nodes[v].name \notin DeclaredInputs(o)
             /\ cache[v] \in Range(nodes[o].inputs)
             /\ o \in Range(nodes[cache[v]].outputs)

C2_Witness ==
  /\ pc = "done"
  /\ \E v \in OrigVars :
       /\ Cardinality(Crossing(v)) >= 2
       /\ Cardinality(ConversionsOf(v)) = 1
       /\ \A o \in Crossing(v) : cache[v] \in Range(nodes[o].inputs)

IsConversionOutput(u, dst) ==
  /\ IsVar(nodes, u)
  /\ nodes[u].inputs # <<>>
  /\ \A t \in Range(nodes[u].inputs) : t \in TransferOps /\ nodes[t].attrs.dst_layout = dst

\* C3: after the pass a valid operator reads no non-persistable Value node
\* outside vars_shape_nhwc other than an NCHW -> NHWC conversion output, and an
\* operator that is not valid reads no node of vars_shape_nhwc and no
\* NCHW -> NHWC conversion output.
C3_NoBoundaryEdge ==
  pc = "done" =>
    \A o \in OrigOps : \A v \in Range(nodes[o].inputs) :
      IF o \in valid_ops
      THEN nodes[v].persistable \/ v \in vars_shape_nhwc \/ IsConversionOutput(v, "NHWC")
      ELSE v \notin vars_shape_nhwc /\ ~IsConversionOutput(v, "NHWC")

C3_Witness ==
  /\ pc = "done"
  /\ \E o \in valid_ops : \E v \in Range(nodes[o].inputs) : IsConversionOutput(v, "NHWC")
  /\ \E o \in OrigOps \ valid_ops : \E v \in Range(nodes[o].inputs) :
       IsConversionOutput(v, "NCHW")

\* C4: an NHWC-tracked Value node read by valid and by other operators keeps
\* its direct edges to the valid ones, and gets exactly one NHWC -> NCHW
\* transfer_layout operator, which all the other consumers read.
C4_MixedConsumers ==
  pc = "done" =>
    \A v \in vars_shape_nhwc :
      LET E == Consumers0(v) \cap valid_ops
          I == Consumers0(v) \ valid_ops
      IN (E # {} /\ I # {}) =>
           /\ \A e \in E :
                /\ v \in Range(nodes[e].inputs)
                /\ nodes[e].in_names = entry.nodes[e].in_names
                /\ \A u \in Range(nodes[e].inputs) : ~IsConversionOutput(u, "NCHW")
           /\ Cardinality(ConversionsOf(v)) = 1
           /\ \A t \in ConversionsOf(v) :
                nodes[t].attrs.src_layout = "NHWC" /\ nodes[t].attrs.dst_layout = "NCHW"
           /\ \A i \in I :
                /\ v \notin Range(nodes[i].inputs)
                /\ \E u \in Range(nodes[i].inputs) :
                     u \in ConversionOutputsOf(v) /\ IsConversionOutput(u, "NCHW")

C4_Witness ==
  /\ pc = "done"
  /\ \E v \in vars_shape_nhwc :
       /\ Consumers0(v) \cap valid_ops # {}
       /\ Cardinality(Consumers0(v) \ valid_ops) >= 2
       /\ Cardinality(ConversionsOf(v)) = 1

\* the nodes with an edge into n, read from either end of the edge
Pred(g, n) == Range(g[n].inputs) \cup {m \in DOMAIN g : n \in Range(g[m].outputs)}

RECURSIVE Peel(_, _)
\* what is left of S after removing, again and again, the nodes without a
\* predecessor in S
Peel(g, S) ==
  LET sources == {n \in S : Pred(g, n) \cap S = {}}
  IN IF sources = {} THEN S ELSE Peel(g, S \ sources)

Acyclic(g) == Peel(g, DOMAIN g) = {}

AllOps == {o \in DOMAIN nodes : IsOp(nodes, o)}

\* C5: after the pass the graph is acyclic and every input name an operator
\* declares is the name of a Value node with an edge into that operator.
C5_AcyclicAndResolved ==
  pc = "done" =>
    /\ Acyclic(nodes)
    /\ \A o \in AllOps : \A name \in DeclaredInputs(o) :
         \E v \in Range(nodes[o].inputs) :
           /\ IsVar(nodes, v)
           /\ nodes[v].name = name
           /\ o \in Range(nodes[v].outputs)

C5_Witness ==
  /\ pc = "done"
  /\ Acyclic(entry.nodes)
  /\ \E o \in OrigOps : \E v \in OrigVars :
       /\ v \in DOMAIN cache
       /\ nodes[o].in_names.Input = <<nodes[cache[v]].name>>
       /\ entry.nodes[o].in_names.Input = <<nodes[v].name>>

P1(o) ==
  \A f \in Range(entry.nodes[o].in_names.Filter) :
    entry.scope[f].dims[1] % 8 = 0 /\ entry.scope[f].dims[2] % 8 = 0
P2(o) == entry.nodes[o].attrs.use_cudnn = "false" /\ use_cutlass
IsCandidate(o) ==
  /\ entry.nodes[o].type = "fused_conv2d_add_act"
  /\ entry.nodes[o].attrs.data_format = "NCHW"

\* C6: after the classification loop an operator is in valid_ops exactly when
\* it is a fused_conv2d_add_act with data_format NCHW and P1 or P2 holds.
C6_Classification ==
  (pc = "filter" /\ iter = 1) =>
    \A o \in OrigOps : o \in valid_ops <=> (IsCandidate(o) /\ (P1(o) \/ P2(o)))

C6_Witness ==
  /\ pc = "filter" /\ iter = 1
  /\ \E o \in valid_ops : P1(o) /\ ~P2(o)
  /\ \E o \in valid_ops : P2(o) /\ ~P1(o)
  /\ \E o \in OrigOps \ valid_ops : IsCandidate(o)

\* C7: when the final valid_ops is empty, the graph and the tensors are exactly
\* as they were at entry.
C7_NothingEligibleNothingChanged ==
  (pc = "done" /\ valid_ops = {}) =>
    /\ nodes = entry.nodes
    /\ scope = entry.scope
    /\ cache = EmptyCache
    /\ vars_shape_nhwc = {}

C7_Witness ==
  /\ pc = "done"
  /\ valid_ops = {}
  /\ ~use_cutlass
  /\ \E o \in OrigOps : IsCandidate(o) /\ ~P1(o)
  /\ nodes = entry.nodes

\* C8: a call with a null graph, a graph that is not the main graph, or no
\* scope ends in an error with the graph, the tensors and the pass's own
\* collections untouched; no loop runs after a failed check.
C8_PreconditionsFirst ==
  (pc # "start" /\ (args.graph_null \/ ~args.is_main \/ args.scope_null)) =>
    /\ pc = "error"
    /\ error # ""
    /\ nodes = entry.nodes
    /\ scope = entry.scope
    /\ valid_ops = {}
    /\ vars_shape_nhwc = {}
    /\ cache = EmptyCache
    /\ \A f \in FilterNames : weights_shared[f] = <<>>

C8_Witness ==
  /\ pc = "error"
  /\ args.scope_null /\ args.is_main /\ ~args.graph_null
  /\ nodes = entry.nodes

\* ------------------------------------------------------------ the whole pass, as a function
RECURSIVE ClassifyAll(_, _, _)
ClassifyAll(st, order, cutlass_enable) ==
  IF order = <<>> THEN st
  ELSE ClassifyAll(ClassifyOp(st, Head(order), cutlass_enable), Tail(order), cutlass_enable)

RECURSIVE FilterAll(_, _)
FilterAll(st, order) ==
  IF order = <<>> THEN st ELSE FilterAll(FilterOp(st, Head(order)), Tail(order))

RECURSIVE CommitAll(_, _, _)
CommitAll(st, order, cutlass_enable) ==
  IF order = <<>> THEN st
  ELSE CommitAll(CommitOp(st, Head(order), cutlass_enable), Tail(order), cutlass_enable)

\* lines 123-304 run over the operators in the given order
RunPass(g, sc, order, cutlass_enable) ==
  LET st0 == State(g, sc, [f \in FilterNames |-> <<>>], {}, {}, EmptyCache)
  IN CommitAll(FilterAll(ClassifyAll(st0, order, cutlass_enable), order),
               order, cutlass_enable)

\* operator a writes a Value node that operator b reads
Feeds(g, a, b) == \E v \in Range(g[a].outputs) : v \in Range(g[b].inputs)

\* every order of the operators in which producers come before consumers
TopoOrders(g, ops) ==
  {p \in [1..Cardinality(ops) -> ops] :
     /\ \A i, j \in DOMAIN p : i # j => p[i] # p[j]
     /\ \A i, j \in DOMAIN p : i < j => ~Feeds(g, p[j], p[i])}

\* a graph up to the identity of its nodes: Value nodes are known by their
\* name, operators by the name of their output
NodeKey(g, n) == IF IsVar(g, n) THEN g[n].name ELSE g[n].out_names[1]
Shape(g) ==
  {[kind |-> g[n].kind, type |-> g[n].type, name |-> g[n].name, attrs |-> g[n].attrs,
    in_names |-> g[n].in_names, out_names |-> g[n].out_names,
    persistable |-> g[n].persistable, shape |-> g[n].shape,
    ins |-> {NodeKey(g, m) : m \in Range(g[n].inputs)},
    outs |-> {NodeKey(g, m) : m \in Range(g[n].outputs)}] : n \in DOMAIN g}

\* C9: the final valid_ops, the rewritten graph and the tensors are the same
\* for every topological order the three loops could iterate over.
C9_OrderIndependent ==
  pc = "done" =>
    \A p \in TopoOrders(entry.nodes, OrigOps) :
      LET r == RunPass(entry.nodes, entry.scope, p, use_cutlass)
      IN /\ r.valid_ops = valid_ops
         /\ Shape(r.nodes) = Shape(nodes)
         /\ r.scope = scope

\* C10: NCHW -> NHWC followed by the NHWC -> NCHW permutation of
\* InsertLayoutTransOp gives back the producer's shape.
C10_RoundTrip ==
  pc = "back" =>
    /\ nodes[cache[2]].shape = PermNCHWToNHWC(entry.nodes[2].shape)
    /\ nodes[cache[cache[2]]].shape = entry.nodes[2].shape
    /\ nodes[2].shape = entry.nodes[2].shape

C10_Witness ==
  /\ pc = "back"
  /\ Cardinality({entry.nodes[2].shape[2], entry.nodes[2].shape[3],
                  entry.nodes[2].shape[4]}) = 3
  /\ nodes[cache[2]].shape # entry.nodes[2].shape
  /\ nodes[cache[cache[2]]].shape = entry.nodes[2].shape

\* C11: after the pass a valid operator on the cuDNN path (P2 false) that has
\* a use_cudnn attribute has it true, and a valid operator on the cutlass path
\* (P2 true) has a fuse_alpha attribute, wherever it stands in the order.
C11_KernelAttrs ==
  pc = "done" =>
    \A o \in valid_ops :
      IF P2(o)
      THEN nodes[o].attrs.fuse_alpha # "absent"
      ELSE entry.nodes[o].attrs.use_cudnn # "absent" => nodes[o].attrs.use_cudnn = "true"

FilterNodes(f) == {v \in OrigVars : entry.nodes[v].persistable /\ entry.nodes[v].name = f}

\* C12: after the pass every persistable Filter read by a valid operator has
\* its buffer in NHWC, converted at most once, and every Value node of that
\* name has the buffer's dims as shape: the entry shape permuted
\* [n,c,h,w] -> [n,h,w,c] once when the buffer was NCHW at entry, and the
\* entry shape with no conversion at all when it was NHWC at entry.
C12_FiltersConvertedOnce ==
  pc = "done" =>
    \A o \in valid_ops : \A f \in Range(entry.nodes[o].in_names.Filter) :
      /\ scope[f].layout = "NHWC"
      /\ scope[f].converted <= 1
      /\ \A v \in FilterNodes(f) : nodes[v].shape = scope[f].dims
      /\ IF entry.scope[f].layout = "NCHW"
         THEN /\ scope[f].converted = 1
              /\ \A v \in FilterNodes(f) :
                   nodes[v].shape = PermNCHWToNHWC(entry.nodes[v].shape)
         ELSE /\ scope[f] = entry.scope[f]
              /\ \A v \in FilterNodes(f) : nodes[v].shape = entry.nodes[v].shape

\* two valid operators share a converted Filter and a third reads one that was
\* NHWC at entry
C12_Witness ==
  /\ pc = "done"
  /\ \E f \in DOMAIN scope :
       /\ entry.scope[f].layout = "NCHW"
       /\ Cardinality({o \in valid_ops : f \in Range(entry.nodes[o].in_names.Filter)}) >= 2
  /\ \E o \in valid_ops : \E f \in Range(entry.nodes[o].in_names.Filter) :
       entry.scope[f].layout = "NHWC"

\* C13: all the InsertLayoutTransOp calls made for one producer have the same
\* direction, so the conversion cached for a producer converts in the
\* direction of every call that reuses it.
C13_OneDirectionPerProducer ==
  /\ \A c1 \in calls, c2 \in calls :
       c1[1] = c2[1] => (c1[2] = c2[2] /\ c1[3] = c2[3])
  /\ \A c \in calls :
       /\ c[1] \in DOMAIN cache
       /\ \A t \in Range(nodes[cache[c[1]]].inputs) :
            nodes[t].attrs.src_layout = c[2] /\ nodes[t].attrs.dst_layout = c[3]

\* calls in both directions were made, and one producer's conversion was
\* reused by a second consumer
C13_Witness ==
  /\ pc = "done"
  /\ \E c1 \in calls, c2 \in calls : c1[2] = "NCHW" /\ c2[2] = "NHWC"
  /\ \E c \in calls :
       Cardinality({o \in OrigOps : cache[c[1]] \in Range(nodes[o].inputs)}) >= 2

Position(o) == CHOOSE i \in 1..Len(op_nodes) : op_nodes[i] = o

\* C14: a Value node enters vars_shape_nhwc only in the commit-loop visit of
\* the operator that produces it, every consumer of the node stands later in
\* op_nodes than that visit, and no node ever leaves vars_shape_nhwc; so
\* membership is final before the first consumer is visited.
C14_TrackedBeforeConsumers ==
  [][/\ vars_shape_nhwc \subseteq vars_shape_nhwc'
     /\ \A v \in vars_shape_nhwc' \ vars_shape_nhwc :
          /\ pc = "commit"
          /\ v \in OrigVars
          /\ op_nodes[iter] \in Range(entry.nodes[v].inputs)
          /\ \A o \in Consumers0(v) : Position(o) > iter]_vars

\* a tracked node has had a valid and a not valid consumer visited after it
C14_Witness ==
  /\ pc = "done"
  /\ \E v \in vars_shape_nhwc :
       /\ Consumers0(v) \cap valid_ops # {}
       /\ Consumers0(v) \ valid_ops # {}

OutEdges(g) == UNION {{<<a, b>> : b \in Range(g[a].outputs)} : a \in DOMAIN g}
InEdges(g) == UNION {{<<a, b>> : a \in Range(g[b].inputs)} : b \in DOMAIN g}
HasEdge(g, a, b) ==
  /\ a \in DOMAIN g /\ b \in DOMAIN g
  /\ b \in Range(g[a].outputs)
  /\ a \in Range(g[b].inputs)

\* C15: no step removes a node, and every edge a step removes is an edge of
\* the entry graph from a Value node to the operator being visited in the
\* commit loop, for which the same step leaves the path
\* producer -> transfer_layout operator -> conversion output -> consumer;
\* every other edge stays.
C15_OnlySupersededEdgesRemoved ==
  [][/\ DOMAIN nodes \subseteq DOMAIN nodes'
     /\ \A n \in DOMAIN nodes :
          nodes'[n].kind = nodes[n].kind /\ nodes'[n].name = nodes[n].name
     /\ \A e \in (OutEdges(nodes) \cup InEdges(nodes)) :
          ~HasEdge(nodes', e[1], e[2]) =>
            /\ pc = "commit"
            /\ e[1] \in OrigVars
            /\ e[2] = op_nodes[iter]
            /\ HasEdge(entry.nodes, e[1], e[2])
            /\ e[1] \in DOMAIN cache'
            /\ \E t \in DOMAIN nodes' :
                 /\ nodes'[t].type = "transfer_layout"
                 /\ HasEdge(nodes', e[1], t)
                 /\ HasEdge(nodes', t, cache'[e[1]])
                 /\ HasEdge(nodes', cache'[e[1]], e[2])]_vars

\* the pass has removed an edge of the entry graph and kept another one that
\* leaves the same Value node
C15_Witness ==
  /\ pc = "done"
  /\ \E v \in OrigVars : \E o1 \in OrigOps, o2 \in OrigOps :
       /\ HasEdge(entry.nodes, v, o1) /\ ~HasEdge(nodes, v, o1)
       /\ HasEdge(entry.nodes, v, o2) /\ HasEdge(nodes, v, o2)

Count(seq, x) == Cardinality({i \in 1..Len(seq) : seq[i] = x})

\* C17: every transfer_layout operator has one entry in its input list (its
\* producer) and one in its output list (its conversion output), and the
\* producer lists the operator once among its outputs, also after a cached
\* conversion has been reused.
C17_SingleConversionEdges ==
  \A t \in TransferOps :
    /\ Len(nodes[t].inputs) = 1
    /\ Len(nodes[t].outputs) = 1
    /\ \A v \in Range(nodes[t].inputs) : Count(nodes[v].outputs, t) = 1

\* C18: after the pass every operator of the entry graph outside valid_ops
\* reads inputs whose declared shapes are the shapes its entry inputs had, and
\* no persistable buffer it reads was converted during the pass.
C18_OthersUntouched ==
  pc = "done" =>
    \A o \in OrigOps \ valid_ops :
      /\ Len(nodes[o].inputs) = Len(entry.nodes[o].inputs)
      /\ {nodes[v].shape : v \in Range(nodes[o].inputs)}
           = {entry.nodes[v].shape : v \in Range(entry.nodes[o].inputs)}
      /\ \A v \in Range(nodes[o].inputs) :
           nodes[v].persistable => scope[nodes[v].name] = entry.scope[nodes[v].name]

ValidOutputs == {v \in OrigVars : \E o \in valid_ops : v \in Range(entry.nodes[o].outputs)}
ValidFilters ==
  {f \in FilterNames : \E o \in valid_ops : f \in Range(entry.nodes[o].in_names.Filter)}
AssumedFourD ==
  {entry.nodes[v].shape : v \in {w \in ValidOutputs : ~entry.nodes[w].persistable}}
  \cup {entry.nodes[v].shape : v \in DOMAIN cache \cap OrigVars}
  \cup {entry.scope[f].dims : f \in ValidFilters}
  \cup UNION {{entry.nodes[v].shape : v \in FilterNodes(f)} : f \in ValidFilters}

\* C16: the pass does not run to completion when a shape it reads as
\* [n,c,h,w] or [n,h,w,c] has another rank: the Filter tensors and Filter
\* Value nodes of a valid operator, its non-persistable outputs, and the
\* producers of the conversions it inserted.
C16_RankCheckedBeforeRewrite ==
  pc = "done" => \A shape \in AssumedFourD : Len(shape) = 4

====
